---- MODULE Spec2Model ----
(***************************************************************************)
(* Model of the unxversal indexer core: the module allowlist, the event    *)
(* extractor (UnxvEventsHandler::process) and the idempotent committer     *)
(* (UnxvEventsHandler::commit, a bulk INSERT ... ON CONFLICT DO NOTHING    *)
(* into the table unxv_events, primary key event_digest).                  *)
(*                                                                         *)
(* Strings are sequences of one-character strings, so that formatting      *)
(* (base58, decimal, hex) and case folding are computed, not assumed.      *)
(***************************************************************************)
EXTENDS Integers, Sequences, FiniteSets, TLC

(***************************************************************************)
(* Bounds of the model (sizes scaled down from the program's).             *)
(***************************************************************************)
\* a transaction digest is DigestBytes bytes (32 in sui_types)
DigestBytes == 1
\* the u64 -> i64 casts are modelled on IntBits-bit integers (64 in the code)
IntBits == 4
\* most transactions of one checkpoint
MaxTxs == 2
\* most records of one batch handed to commit directly
MaxBatch == 3
\* connections committing at the same time
NumConns == 2

(***************************************************************************)
(* Option<T>: None is the empty sequence, Some(x) the one-element one.     *)
(***************************************************************************)
None == <<>>
Some(x) == <<x>>
IsSome(o) == o # None
Unwrap(o) == o[1]

\* a mutant of UnwrapOrDefault: the zero address in place of the empty string
UnwrapOrZeroAddress(o) == IF o = None THEN <<"0", "x", "0">> ELSE Unwrap(o)

\* Option<String>::unwrap_or_default(): the empty string for None
UnwrapOrDefault(o) == IF IsSome(o) THEN Unwrap(o) ELSE <<>>

RECURSIVE Pow(_, _)
Pow(b, e) == IF e = 0 THEN 1 ELSE b * Pow(b, e - 1)

(***************************************************************************)
(* String conversions.                                                     *)
(***************************************************************************)
UpperLetters == <<"A","B","C","D","E","F","G","H","I","J","K","L","M",
                  "N","O","P","Q","R","S","T","U","V","W","X","Y","Z">>
LowerLetters == <<"a","b","c","d","e","f","g","h","i","j","k","l","m",
                  "n","o","p","q","r","s","t","u","v","w","x","y","z">>

\* u8::to_ascii_lowercase: 'A'..'Z' map to 'a'..'z', every other byte to itself
LowerChar(c) ==
    IF \E i \in DOMAIN UpperLetters : UpperLetters[i] = c
    THEN LowerLetters[CHOOSE i \in DOMAIN UpperLetters : UpperLetters[i] = c]
    ELSE c

\* str::to_ascii_lowercase
to_ascii_lowercase(s) == [i \in DOMAIN s |-> LowerChar(s[i])]

DecimalDigits == <<"0","1","2","3","4","5","6","7","8","9">>

\* Display of a usize (the {idx} of format!): decimal, no padding, no sign
RECURSIVE Decimal(_)
Decimal(n) ==
    IF n < 10 THEN << DecimalDigits[n + 1] >>
    ELSE Decimal(n \div 10) \o << DecimalDigits[(n % 10) + 1] >>

\* the Bitcoin base58 alphabet, used by Display of a sui_types digest
Base58Alphabet ==
    <<"1","2","3","4","5","6","7","8","9",
      "A","B","C","D","E","F","G","H","J","K","L","M","N","P","Q","R","S","T",
      "U","V","W","X","Y","Z",
      "a","b","c","d","e","f","g","h","i","j","k","m","n","o","p","q","r","s",
      "t","u","v","w","x","y","z">>

\* big-endian value of a byte string
RECURSIVE BytesValue(_)
BytesValue(bs) ==
    IF bs = <<>> THEN 0
    ELSE BytesValue(SubSeq(bs, 1, Len(bs) - 1)) * 256 + bs[Len(bs)]

RECURSIVE Base58Digits(_)
Base58Digits(n) ==
    IF n = 0 THEN <<>>
    ELSE Base58Digits(n \div 58) \o << Base58Alphabet[(n % 58) + 1] >>

RECURSIVE LeadingZeros(_)
LeadingZeros(bs) ==
    IF bs = <<>> \/ bs[1] # 0 THEN 0 ELSE 1 + LeadingZeros(Tail(bs))

\* base58 of a byte string: one '1' per leading zero byte, then the digits
\* of the big-endian value; the length of the result depends on the value
Base58(bs) ==
    [i \in 1..LeadingZeros(bs) |-> "1"] \o Base58Digits(BytesValue(bs))

HexDigits == <<"0","1","2","3","4","5","6","7","8","9","a","b","c","d","e","f">>

RECURSIVE HexBytes(_)
HexBytes(bs) ==
    IF bs = <<>> THEN <<>>
    ELSE << HexDigits[(bs[1] \div 16) + 1], HexDigits[(bs[1] % 16) + 1] >>
         \o HexBytes(Tail(bs))

\* Display of a SuiAddress: 0x and two lower-case hex digits per byte
AddressToString(a) == <<"0", "x">> \o HexBytes(a)

\* Display of a TypeTag (the primitive tags the model draws from)
TypeTagToString(t) ==
    CASE t = "U64"  -> <<"u","6","4">>
      [] t = "Bool" -> <<"b","o","o","l">>
      [] t = "U8"   -> <<"u","8">>

\* `x as i64` of a u64: the same bits read as two's complement
AsSigned(x) == IF x >= Pow(2, IntBits - 1) THEN x - Pow(2, IntBits) ELSE x

(***************************************************************************)
(* Inputs: module names, events, transactions, checkpoints.                *)
(***************************************************************************)
ModDex == <<"d","e","x">>
ModDexCap == <<"D","e","x">>
ModDexUpper == <<"D","E","X">>
ModAmm == <<"a","m","m">>
ModuleNames == {ModDex, ModDexCap, ModAmm}

StructFill == <<"F","i","l","l">>

PkgA == <<"0","x","a">>
PkgD == <<"0","x","d">>

\* an event: its type (StructTag: module, name, type_params) and its payload
Event(module, type_params, contents) ==
    [type_ |-> [module |-> module, name |-> StructFill, type_params |-> type_params],
     contents |-> contents]

\* the event at (0-based) position idx of a list that cycles through `pattern`:
\* the payload is the position, every second event has type parameters
EventAt(pattern, idx) ==
    Event(pattern[(idx % Len(pattern)) + 1],
          IF idx % 2 = 0 THEN <<>> ELSE <<"U64", "Bool">>,
          << idx % 256 >>)

EventList(n, pattern) == [i \in 1..n |-> EventAt(pattern, i - 1)]

\* longest event list of one transaction
MaxEvents == 11

\* TransactionEvents of a transaction: absent, or a list of events (one event;
\* two events of two modules; the longest list, of one module)
EventOptions ==
    { None,
      Some(EventList(1, <<ModDex>>)),
      Some(EventList(2, <<ModAmm, ModDexCap>>)),
      Some(EventList(MaxEvents, <<ModDex>>)) }

\* digests as byte strings of DigestBytes bytes (big-endian value v)
RECURSIVE BytesOf(_, _)
BytesOf(v, len) ==
    IF len = 0 THEN <<>> ELSE Append(BytesOf(v \div 256, len - 1), v % 256)

\* the digests of the transactions drawn, as values: 1 and 58 format (base58)
\* as "2" and "21", 0 as "1"
DigestValues == <<1, 58, 0>>

DigestOf(v) == BytesOf(v, DigestBytes)

SenderS == <<171>>

\* what the invoked package of a transaction resolves to (absent when the
\* transaction is not a resolvable move call)
PackageOptions == {None, Some(PkgD)}

\* the transactions with digest d
TransactionsOf(d) ==
    [digest : {d}, sender : {SenderS},
     events : EventOptions, move_call_package : PackageOptions]

\* sequences of at most n transactions; their digests are pairwise distinct
\* (a digest is the hash of the transaction): the i-th has the i-th digest
RECURSIVE TxSeqs(_)
TxSeqs(n) ==
    IF n = 0 THEN { <<>> }
    ELSE IF n > Len(DigestValues) THEN TxSeqs(Len(DigestValues))
    ELSE LET shorter == TxSeqs(n - 1)
         IN  shorter \cup
             { Append(s, t) : s \in {x \in shorter : Len(x) = n - 1},
                              t \in TransactionsOf(DigestOf(DigestValues[n])) }

\* (sequence_number, timestamp_ms) of the checkpoint summaries drawn: u64 values
\* on IntBits bits, among them the largest and values with the top bit set
Summaries ==
    { [sequence_number |-> 0, timestamp_ms |-> 1],
      [sequence_number |-> Pow(2, IntBits - 1) - 1, timestamp_ms |-> Pow(2, IntBits) - 1],
      [sequence_number |-> Pow(2, IntBits - 1), timestamp_ms |-> 5] }

Checkpoints ==
    { [checkpoint_summary |-> s, transactions |-> txs] :
        s \in Summaries, txs \in TxSeqs(MaxTxs) }

(***************************************************************************)
(* Configuration.                                                          *)
(***************************************************************************)
\* arguments of UnxvEventsHandler::new: Option<Vec<&str>>
FilterArgs ==
    { None, Some(<<>>), Some(<<ModDex>>), Some(<<ModDexUpper>>),
      Some(<<ModDexCap, ModAmm>>) }

\* values of the environment variable UNXV_PACKAGE_IDS (unset, or a string)
EnvValues ==
    { None, Some(<<"0","x","A">>),
      Some(<<" ","0","x","a",","," ","0","x","D",",">>) }

\* str::split(','): the pieces between commas (one more than the commas)
RECURSIVE SplitComma(_, _, _)
SplitComma(s, i, piece) ==
    IF i > Len(s) THEN << piece >>
    ELSE IF s[i] = "," THEN << piece >> \o SplitComma(s, i + 1, <<>>)
    ELSE SplitComma(s, i + 1, Append(piece, s[i]))

\* str::trim for the white space the model draws (blanks)
RECURSIVE Trim(_)
Trim(s) ==
    IF s = <<>> THEN s
    ELSE IF s[1] = " " THEN Trim(Tail(s))
    ELSE IF s[Len(s)] = " " THEN Trim(SubSeq(s, 1, Len(s) - 1))
    ELSE s

\* main: the package allowlist parsed from UNXV_PACKAGE_IDS
ParsePackageAllowlist(env) ==
    IF env = None THEN None
    ELSE LET pieces == SplitComma(Unwrap(env), 1, <<>>)
             norm == [i \in DOMAIN pieces |-> to_ascii_lowercase(Trim(pieces[i]))]
         IN  Some(SelectSeq(norm, LAMBDA x : x # <<>>))

(***************************************************************************)
(* State.                                                                  *)
(***************************************************************************)
VARIABLES
    modules_arg,        \* the argument UnxvEventsHandler::new was called with
    modules_filter,     \* UnxvEventsHandler.modules_filter: Option<HashSet<String>>
    package_allowlist,  \* main's package_allowlist: Option<Vec<String>>
    checkpoint,         \* the checkpoint last given to process (None before any)
    out,                \* what process returned for it
    store,              \* the table unxv_events: event_digest -> row
    values,             \* the batch of the last commit
    ret,                \* what the last commit returned
    pre,                \* the table as it was when the last commit began
    again,              \* the last commit repeated the record set of the one before
    delivered,          \* the checkpoints delivered so far (process + commit)
    redelivery,         \* the last delivery was of a checkpoint delivered before
    conns,              \* the commits in flight, one per connection
    returned            \* the calls of process so far: <<checkpoint, what process
                        \* returned, whether the table held rows at the call>>

vars == << modules_arg, modules_filter, package_allowlist, checkpoint, out, store, values, ret,
           pre, again, delivered, redelivery, conns, returned >>

(***************************************************************************)
(* The module allowlist.                                                   *)
(***************************************************************************)
Range(s) == { s[i] : i \in DOMAIN s }

\* UnxvEventsHandler::new: the names lower-cased, collected into a set
new(filter_arg) ==
    IF filter_arg = None THEN None
    ELSE Some({ to_ascii_lowercase(m) : m \in Range(Unwrap(filter_arg)) })

\* a mutant of allow_module: the module name is looked up as it is written
allow_module_case_sensitive(filter, module) ==
    IF filter = None THEN TRUE ELSE module \in Unwrap(filter)

\* a mutant of allow_module: without a set, nothing is allowed
allow_module_none_rejects(filter, module) ==
    IF filter = None THEN FALSE
    ELSE to_ascii_lowercase(module) \in Unwrap(filter)

\* UnxvEventsHandler::allow_module
allow_module(filter, module) ==
    IF filter = None THEN TRUE
    ELSE to_ascii_lowercase(module) \in Unwrap(filter)

(***************************************************************************)
(* The event extractor.                                                    *)
(***************************************************************************)
\* handlers::try_extract_move_call_package: the address of the package whose
\* entry function the transaction invokes, if it can be determined
try_extract_move_call_package(tx) == tx.move_call_package

\* tx.transaction.digest().to_string()
DigestString(tx) == Base58(tx.digest)

\* a mutant of EventDigest: positions counted from 1
EventDigestFromOne(digest, idx) == digest \o Decimal(idx + 1)

\* format!("{digest}{idx}")
EventDigest(digest, idx) == digest \o Decimal(idx)

\* the UnxvEvent built for the event ev at position idx of tx
Row(cp, tx, package, idx, ev) ==
    [event_digest |-> EventDigest(DigestString(tx), idx),
     digest |-> DigestString(tx),
     sender |-> AddressToString(tx.sender),
     checkpoint |-> AsSigned(cp.checkpoint_summary.sequence_number),
     checkpoint_timestamp_ms |-> AsSigned(cp.checkpoint_summary.timestamp_ms),
     package |-> package,
     module |-> ev.type_.module,
     event_type |-> ev.type_.name,
     type_params |-> [k \in DOMAIN ev.type_.type_params |->
                        TypeTagToString(ev.type_.type_params[k])],
     contents_bcs |-> ev.contents]

RECURSIVE ProcessEventsPrepend(_, _, _, _, _, _, _)
\* a mutant of ProcessEvents: out.insert(0, row) in place of out.push(row)
ProcessEventsPrepend(filter, cp, tx, package, events, i, acc) ==
    IF i > Len(events) THEN acc
    ELSE LET idx == i - 1
             ev == events[i]
         IN  IF ~allow_module(filter, ev.type_.module)
             THEN ProcessEventsPrepend(filter, cp, tx, package, events, i + 1, acc)
             ELSE ProcessEventsPrepend(filter, cp, tx, package, events, i + 1,
                                       <<Row(cp, tx, package, idx, ev)>> \o acc)

\* the inner loop: for (idx, ev) in events.data.iter().enumerate(), from the
\* i-th event on
RECURSIVE ProcessEvents(_, _, _, _, _, _, _)
ProcessEvents(filter, cp, tx, package, events, i, acc) ==
    IF i > Len(events) THEN acc
    ELSE LET idx == i - 1
             ev == events[i]
         IN  IF ~allow_module(filter, ev.type_.module)
             THEN ProcessEvents(filter, cp, tx, package, events, i + 1, acc)
             ELSE ProcessEvents(filter, cp, tx, package, events, i + 1,
                                Append(acc, Row(cp, tx, package, idx, ev)))

\* the outer loop: for tx in &checkpoint.transactions, from the t-th on
RECURSIVE ProcessTxs(_, _, _, _)
ProcessTxs(filter, cp, t, acc) ==
    IF t > Len(cp.transactions) THEN acc
    ELSE LET tx == cp.transactions[t]
         IN  IF tx.events = None
             THEN ProcessTxs(filter, cp, t + 1, acc)
             ELSE ProcessTxs(filter, cp, t + 1,
                    ProcessEvents(filter, cp, tx,
                                  UnwrapOrDefault(try_extract_move_call_package(tx)),
                                  Unwrap(tx.events), 1, acc))

\* a mutant of process: a record whose key the table holds is left out
process_skipping_stored(filter, cp) ==
    SelectSeq(ProcessTxs(filter, cp, 1, <<>>),
              LAMBDA r : r.event_digest \notin DOMAIN store)

\* UnxvEventsHandler::process: always Ok(out)
process(filter, cp) == ProcessTxs(filter, cp, 1, <<>>)

(***************************************************************************)
(* The committer: diesel::insert_into(unxv_events::table).values(values)   *)
(* .on_conflict_do_nothing().execute(conn), one INSERT statement.          *)
(***************************************************************************)
EmptyTable == [k \in {} |-> {}]

Keys(table) == DOMAIN table

\* a mutant of OnConflict: the arriving row replaces the stored one
OnConflictDoUpdate(table, row) == [table EXCEPT ![row.event_digest] = row]

\* .on_conflict_do_nothing(): a row whose event_digest is a key of the table
\* leaves the table as it is
OnConflict(table, row) == table

\* a mutant of Affected: every row of the statement is counted
AffectedCountsAll(n, inserted) == n + 1

\* the statement's count of affected rows after one more row: a row counts
\* when it was inserted
Affected(n, inserted) == IF inserted THEN n + 1 ELSE n

\* the rows of the statement applied in order, each against the table as the
\* rows before it left it
RECURSIVE InsertRows(_, _, _)
InsertRows(table, vals, n) ==
    IF vals = <<>> THEN [table |-> table, n |-> n]
    ELSE LET row == Head(vals)
         IN  IF row.event_digest \in Keys(table)
             THEN InsertRows(OnConflict(table, row), Tail(vals), Affected(n, FALSE))
             ELSE InsertRows(table @@ (row.event_digest :> row), Tail(vals),
                             Affected(n, TRUE))

\* a mutant of commit: every row is checked against the table as it was when
\* the statement began, so a key repeated inside the batch counts twice
commit_against_snapshot(table, vals) ==
    LET fresh == SelectSeq(vals, LAMBDA r : r.event_digest \notin Keys(table))
        res == InsertRows(table, vals, 0)
    IN  [table |-> res.table, n |-> Len(fresh)]

\* UnxvEventsHandler::commit when the statement succeeds: Ok(count)
commit(table, vals) == InsertRows(table, vals, 0)

NoRet == [tag |-> "none", n |-> 0]
Ok(n) == [tag |-> "ok", n |-> n]
Err == [tag |-> "err", n |-> 0]

\* the last commit succeeded on the record set the commit before it succeeded on
SameRecordSet(vals) == ret.tag = "ok" /\ Range(vals) = Range(values)

(***************************************************************************)
(* Specification SpecProcess: a handler as main or a test constructs it,  *)
(* and process applied to checkpoints.                                     *)
(***************************************************************************)
InitIdle ==
    /\ checkpoint = None
    /\ out = <<>>
    /\ store = EmptyTable
    /\ values = <<>>
    /\ ret = NoRet
    /\ pre = EmptyTable
    /\ again = FALSE
    /\ delivered = {}
    /\ redelivery = FALSE
    /\ conns = <<>>
    /\ returned = {}

InitProcess ==
    /\ modules_arg \in FilterArgs
    /\ modules_filter = new(modules_arg)
    /\ package_allowlist \in { ParsePackageAllowlist(e) : e \in EnvValues }
    /\ InitIdle

\* the pipeline hands one checkpoint to process
Process(cp) ==
    /\ checkpoint = None
    /\ checkpoint' = Some(cp)
    /\ out' = process(modules_filter, cp)
    /\ UNCHANGED << modules_arg, modules_filter, package_allowlist, store, values,
                    ret, pre, again, delivered, redelivery, conns, returned >>

NextProcess == \E cp \in Checkpoints : Process(cp)

SpecProcess == InitProcess /\ [][NextProcess]_vars

(***************************************************************************)
(* Properties of process (checked under SpecProcess).                      *)
(***************************************************************************)
TheCheckpoint == Unwrap(checkpoint)

\* the transactions of the processed checkpoint that carry events
TxsWithEvents ==
    { TheCheckpoint.transactions[t] : t \in
        { u \in DOMAIN TheCheckpoint.transactions :
            TheCheckpoint.transactions[u].events # None } }

EventsOf(tx) == Unwrap(tx.events)

\* the records of the output that come from tx, in output order (the digests
\* of the transactions of a checkpoint are distinct byte strings of one length)
RowsOf(tx) == SelectSeq(out, LAMBDA r : r.digest = DigestString(tx))

\* two characters are the same letter in either case, or the same character
SameCharIgnoringCase(a, b) ==
    \/ a = b
    \/ \E i \in DOMAIN UpperLetters :
          {a, b} = {UpperLetters[i], LowerLetters[i]}

SameIgnoringCase(s, t) ==
    /\ Len(s) = Len(t)
    /\ \A i \in DOMAIN s : SameCharIgnoringCase(s[i], t[i])

\* module is a member of the supplied set M, case-insensitively
InModuleSet(module) ==
    \E m \in Range(Unwrap(modules_arg)) : SameIgnoringCase(module, m)

\* the 0-based positions, in order, of the events of tx that process keeps
KeptPositions(tx) ==
    SelectSeq([i \in 1..Len(EventsOf(tx)) |-> i - 1],
              LAMBDA idx : allow_module(modules_filter,
                                        EventsOf(tx)[idx + 1].type_.module))

\* C3: any two events that differ in (transaction, position) get different
\* event_digest values. Every position of the output is one kept event, so
\* the event_digest values of the output are pairwise distinct.
C3_EventDigestGloballyUnique ==
    \A a, b \in DOMAIN out :
        a # b => out[a].event_digest # out[b].event_digest

\* C4: in every transaction the kept event at position i (counted in the
\* full event list, before filtering) gets event_digest = transaction digest
\* followed by the decimal string of i, and the event_digest values of the
\* kept events of one transaction are pairwise distinct.
C4_EventDigestIsDigestThenPosition ==
    checkpoint # None =>
        \A tx \in TxsWithEvents :
            LET rows == RowsOf(tx)
                kept == KeptPositions(tx)
            IN  /\ Len(rows) = Len(kept)
                /\ \A k \in DOMAIN rows :
                      rows[k].event_digest = DigestString(tx) \o Decimal(kept[k])
                /\ \A j, k \in DOMAIN rows :
                      j # k => rows[j].event_digest # rows[k].event_digest

\* C4's case: the first record of the output is of an event at position 1,
\* the event before it having been filtered out, and a transaction has kept
\* events at positions of two decimal digits
C4_Witness ==
    /\ checkpoint # None
    /\ out # <<>>
    /\ out[1].event_digest = out[1].digest \o <<"1">>
    /\ \E k \in DOMAIN out : out[k].event_digest = out[k].digest \o <<"1", "0">>

RECURSIVE CountEvents(_)
CountEvents(txs) ==
    IF txs = <<>> THEN 0
    ELSE (IF Head(txs).events = None THEN 0 ELSE Len(Unwrap(Head(txs).events)))
         + CountEvents(Tail(txs))

\* C6: with no module set supplied, allow_module is true of every module name
\* and process emits exactly one record for every event of every transaction
\* that carries events.
C6_PassThroughKeepsAll ==
    (checkpoint # None /\ modules_arg = None) =>
        /\ \A m \in ModuleNames : allow_module(modules_filter, m)
        /\ Len(out) = CountEvents(TheCheckpoint.transactions)
        /\ \A tx \in TxsWithEvents :
              /\ Len(RowsOf(tx)) = Len(EventsOf(tx))
              /\ \A i \in DOMAIN EventsOf(tx) :
                    /\ RowsOf(tx)[i].module = EventsOf(tx)[i].type_.module
                    /\ RowsOf(tx)[i].contents_bcs = EventsOf(tx)[i].contents

\* C6's case: pass-through mode, and records of two different modules emitted
C6_Witness ==
    /\ checkpoint # None
    /\ modules_arg = None
    /\ \E j, k \in DOMAIN out : out[j].module = ModAmm /\ out[k].module = ModDexCap

\* C7: with a package allowlist configured, no event of a transaction whose
\* resolved package address is not a member yields a record, whatever the
\* module allowlist says (an allowlist that is configured and empty is left
\* out of the statement: the design reads it as pass-through).
C7_PackageAllowlistSkipsTransaction ==
    (checkpoint # None /\ package_allowlist # None
        /\ Unwrap(package_allowlist) # <<>>) =>
        \A tx \in TxsWithEvents :
            LET resolved == try_extract_move_call_package(tx)
            IN  ( /\ IsSome(resolved)
                  /\ \A a \in Range(Unwrap(package_allowlist)) :
                        ~SameIgnoringCase(Unwrap(resolved), a) )
                => RowsOf(tx) = <<>>

\* the index, in the processed checkpoint, of the transaction a record names
TxIndexOf(r) ==
    CHOOSE t \in DOMAIN TheCheckpoint.transactions :
        DigestString(TheCheckpoint.transactions[t]) = r.digest

\* the 0-based position a record's identifier ends with
PositionOf(r) ==
    LET tx == TheCheckpoint.transactions[TxIndexOf(r)]
    IN  CHOOSE p \in 0..(Len(EventsOf(tx)) - 1) :
            r.event_digest = r.digest \o Decimal(p)

RECURSIVE KeptCount(_)
\* the number of events of a sequence of transactions that process keeps
KeptCount(txs) ==
    IF txs = <<>> THEN 0
    ELSE (IF Head(txs).events = None THEN 0 ELSE Len(KeptPositions(Head(txs))))
         + KeptCount(Tail(txs))

\* C11: process preserves order. The output holds one record per kept event
\* and nothing else; a record of an earlier transaction of the checkpoint comes
\* before every record of a later one, and the records of one transaction come
\* in increasing position: the output is the subsequence of kept events of the
\* (transaction, position) enumeration.
C11_OutputKeepsEnumerationOrder ==
    checkpoint # None =>
        /\ Len(out) = KeptCount(TheCheckpoint.transactions)
        /\ \A tx \in TxsWithEvents :
              /\ Len(RowsOf(tx)) = Len(KeptPositions(tx))
              /\ \A j \in DOMAIN RowsOf(tx) :
                    PositionOf(RowsOf(tx)[j]) = KeptPositions(tx)[j]
        /\ \A a, b \in DOMAIN out :
              a < b =>
                \/ TxIndexOf(out[a]) < TxIndexOf(out[b])
                \/ /\ TxIndexOf(out[a]) = TxIndexOf(out[b])
                   /\ PositionOf(out[a]) < PositionOf(out[b])

\* C11's case: two transactions have records in the output, one of them
\* several, and an event between kept ones was filtered out
C11_Witness ==
    /\ checkpoint # None
    /\ Len(out) < CountEvents(TheCheckpoint.transactions)
    /\ \E a, b \in DOMAIN out :
          /\ TxIndexOf(out[a]) < TxIndexOf(out[b])
          /\ \E c \in DOMAIN out :
                c # a /\ TxIndexOf(out[c]) = TxIndexOf(out[a])

\* C12: extraction degrades and never fails; process has one return, Ok(out),
\* for every checkpoint. A transaction whose events are absent contributes no
\* record; a transaction whose invoked package cannot be resolved has every
\* allowed event emitted, with the empty string as package; an event whose
\* type has no type parameters is emitted with an empty type_params list.
C12_ExtractionDegradesWithoutFailing ==
    checkpoint # None =>
        /\ \A t \in DOMAIN TheCheckpoint.transactions :
              TheCheckpoint.transactions[t].events = None =>
                \A j \in DOMAIN out :
                    out[j].digest # DigestString(TheCheckpoint.transactions[t])
        /\ \A tx \in TxsWithEvents :
              /\ Len(RowsOf(tx)) = Len(KeptPositions(tx))
              /\ try_extract_move_call_package(tx) = None =>
                    \A j \in DOMAIN RowsOf(tx) : RowsOf(tx)[j].package = <<>>
              /\ \A j \in DOMAIN RowsOf(tx) :
                    EventsOf(tx)[KeptPositions(tx)[j] + 1].type_.type_params = <<>>
                        => RowsOf(tx)[j].type_params = <<>>

\* C12's case: the checkpoint holds a transaction without events and one whose
\* package is unresolved, and the latter has a record of an event without type
\* parameters and a record of an event with some
C12_Witness ==
    /\ checkpoint # None
    /\ \E t \in DOMAIN TheCheckpoint.transactions :
          TheCheckpoint.transactions[t].events = None
    /\ \E tx \in TxsWithEvents :
          /\ try_extract_move_call_package(tx) = None
          /\ \E j, k \in DOMAIN RowsOf(tx) :
                /\ RowsOf(tx)[j].type_params = <<>>
                /\ RowsOf(tx)[k].type_params # <<>>
                /\ RowsOf(tx)[j].package = <<>>

\* C15: a handler whose module set is supplied but empty is a pass-through:
\* allow_module is true of every module name and process keeps every event.
C15_EmptyModuleSetAcceptsAll ==
    (checkpoint # None /\ modules_arg = Some(<<>>)) =>
        /\ \A m \in ModuleNames : allow_module(modules_filter, m)
        /\ Len(out) = CountEvents(TheCheckpoint.transactions)

\* C16: every record is derived one to one from its event. Its digest and
\* sender are those of the transaction, its checkpoint and
\* checkpoint_timestamp_ms those of the enclosing checkpoint, its module and
\* event_type the module name and struct name of the event's type, its
\* type_params the type's arguments in order, its contents_bcs the payload
\* unmodified; all records of one transaction carry one package value.
C16_RecordIsDerivedFromItsEvent ==
    checkpoint # None =>
        \A tx \in TxsWithEvents :
            /\ Len(RowsOf(tx)) = Len(KeptPositions(tx))
            /\ \A j \in DOMAIN RowsOf(tx) :
                  LET r == RowsOf(tx)[j]
                      ev == EventsOf(tx)[KeptPositions(tx)[j] + 1]
                  IN  /\ r.digest = Base58(tx.digest)
                      /\ r.sender = <<"0", "x">> \o HexBytes(tx.sender)
                      /\ r.checkpoint =
                            TheCheckpoint.checkpoint_summary.sequence_number
                      /\ r.checkpoint_timestamp_ms =
                            TheCheckpoint.checkpoint_summary.timestamp_ms
                      /\ r.module = ev.type_.module
                      /\ r.event_type = ev.type_.name
                      /\ Len(r.type_params) = Len(ev.type_.type_params)
                      /\ \A k \in DOMAIN r.type_params :
                            r.type_params[k] =
                                TypeTagToString(ev.type_.type_params[k])
                      /\ r.contents_bcs = ev.contents
                      /\ r.package = RowsOf(tx)[1].package

\* C17: for every unsigned value of the sequence number and the timestamp, the
\* signed fields of the record equal them as integers; none is negative.
C17_SignedFieldsEqualUnsigned ==
    checkpoint # None =>
        \A j \in DOMAIN out :
            /\ out[j].checkpoint >= 0
            /\ out[j].checkpoint_timestamp_ms >= 0
            /\ out[j].checkpoint =
                  TheCheckpoint.checkpoint_summary.sequence_number
            /\ out[j].checkpoint_timestamp_ms =
                  TheCheckpoint.checkpoint_summary.timestamp_ms

(***************************************************************************)
(* Specification SpecCommit: commits of arbitrary batches, one after the   *)
(* other, on one table.                                                    *)
(***************************************************************************)
\* a row as process builds them, with the given key and payload
RowWith(key, contents) ==
    [event_digest |-> key,
     digest |-> <<"2">>,
     sender |-> AddressToString(SenderS),
     checkpoint |-> 0,
     checkpoint_timestamp_ms |-> 1,
     package |-> PkgD,
     module |-> ModDex,
     event_type |-> StructFill,
     type_params |-> <<>>,
     contents_bcs |-> contents]

\* the rows the batches draw from: two keys, one of them with two rows of
\* different fields
CommitRows ==
    { RowWith(EventDigest(<<"2">>, 0), <<0>>),
      RowWith(EventDigest(<<"2">>, 0), <<1>>),
      RowWith(EventDigest(<<"2">>, 1), <<0>>) }

RECURSIVE SeqsUpTo(_, _)
SeqsUpTo(S, n) ==
    IF n = 0 THEN { <<>> }
    ELSE LET shorter == SeqsUpTo(S, n - 1)
         IN  shorter \cup
             { Append(s, x) : s \in {y \in shorter : Len(y) = n - 1}, x \in S }

Batches == SeqsUpTo(CommitRows, MaxBatch)

InitCommit ==
    /\ modules_arg = None
    /\ modules_filter = new(modules_arg)
    /\ package_allowlist = None
    /\ InitIdle

\* commit(values, conn) returns Ok(n): the statement took effect
CommitOk(vals) ==
    LET res == commit(store, vals)
    IN  /\ pre' = store
        /\ store' = res.table
        /\ ret' = Ok(res.n)
        /\ values' = vals
        /\ again' = SameRecordSet(vals)
        /\ UNCHANGED << modules_arg, modules_filter, package_allowlist, checkpoint,
                        out, delivered, redelivery, conns, returned >>

\* a mutant of CommitErr: the rows are inserted by one statement each, and the
\* failure comes after the first
CommitErrPartial(vals) ==
    /\ pre' = store
    /\ store' = IF vals = <<>> THEN store ELSE commit(store, <<vals[1]>>).table
    /\ ret' = Err
    /\ values' = vals
    /\ again' = FALSE
    /\ UNCHANGED << modules_arg, modules_filter, package_allowlist, checkpoint,
                    out, delivered, redelivery, conns, returned >>

\* commit(values, conn) returns Err, the statement did not take effect:
\* execute failed (the connection, the server) before or while the store ran
\* the statement; the `?` hands the error to the caller and the statement,
\* being one statement, left no row behind
CommitErr(vals) ==
    /\ pre' = store
    /\ store' = store
    /\ ret' = Err
    /\ values' = vals
    /\ again' = FALSE
    /\ UNCHANGED << modules_arg, modules_filter, package_allowlist, checkpoint,
                    out, delivered, redelivery, conns, returned >>

\* commit(values, conn) returns Err, the statement took effect: commit opens
\* no transaction, so the store commits the statement when it ends; the
\* connection is lost before the reply reaches execute(conn).await, and the `?`
\* hands that error to the caller
CommitErrApplied(vals) ==
    /\ pre' = store
    /\ store' = commit(store, vals).table
    /\ ret' = Err
    /\ values' = vals
    /\ again' = FALSE
    /\ UNCHANGED << modules_arg, modules_filter, package_allowlist, checkpoint,
                    out, delivered, redelivery, conns, returned >>

NextCommit ==
    \E vals \in Batches :
        CommitOk(vals) \/ CommitErr(vals) \/ CommitErrApplied(vals)

SpecCommit == InitCommit /\ [][NextCommit]_vars

(***************************************************************************)
(* Properties of commit (checked under SpecCommit).                        *)
(***************************************************************************)
DigestsOf(vals) == { vals[i].event_digest : i \in DOMAIN vals }

\* C1: committing the same record set twice in a row: the second commit
\* returns 0 and the stored rows (keys and all field values) are those the
\* first commit left.
C1_SecondCommitIsNoOp ==
    again => (ret = Ok(0) /\ store = pre)

\* C1's case: a batch of several rows, one key repeated in it with different
\* fields, committed twice in a row onto a table that held another row
C1_Witness ==
    /\ again
    /\ Len(values) >= 2
    /\ \E i, j \in DOMAIN values :
          /\ values[i].event_digest = values[j].event_digest
          /\ values[i] # values[j]
    /\ Cardinality(Keys(store)) > Cardinality(DigestsOf(values))

\* C8: a successful commit returns the number of distinct event_digest values
\* of the batch that were not keys of the table, the keys afterwards are the
\* keys before united with the event_digests of the batch, and the count is
\* strictly less than the length of the batch whenever the batch holds an
\* event_digest already stored or repeated inside the batch.
C8_CountIsRowsInserted ==
    ret.tag = "ok" =>
        /\ ret.n = Cardinality(DigestsOf(values) \ Keys(pre))
        /\ Keys(store) = Keys(pre) \cup DigestsOf(values)
        /\ ( \/ DigestsOf(values) \cap Keys(pre) # {}
             \/ Cardinality(DigestsOf(values)) < Len(values) )
           => ret.n < Len(values)

\* C8's case: the batch holds a stored key, a new key and a repeated key, and
\* the count is positive and less than the length of the batch
C8_Witness ==
    /\ ret.tag = "ok"
    /\ DigestsOf(values) \cap Keys(pre) # {}
    /\ DigestsOf(values) \ Keys(pre) # {}
    /\ Cardinality(DigestsOf(values)) < Len(values)
    /\ ret.n > 0
    /\ ret.n < Len(values)

\* C9: over any sequence of commits a stored row is never removed and none of
\* its fields ever changes, also when a later commit carries a record with the
\* same event_digest and different field values.
C9_RowsAreWriteOnce ==
    [][ \A k \in Keys(store) : k \in Keys(store') /\ store'[k] = store[k] ]_vars

\* C9's case: a commit carried a record whose event_digest was stored with
\* other field values, returned Ok, and the stored row is the old one
C9_Witness ==
    /\ ret.tag = "ok"
    /\ \E i \in DOMAIN values :
          LET k == values[i].event_digest
          IN  /\ k \in Keys(pre)
              /\ pre[k] # values[i]
              /\ store[k] = pre[k]

\* C13 as stated: whenever commit returns an error, the store is exactly as
\* it was before the call and no row of the batch is persisted.
C13_FailedCommitLeavesStoreUnchanged ==
    ret = Err => store = pre

\* C13, amended: whenever commit returns an error, the error is what the
\* caller gets from that one attempt, and the store never holds a part of
\* the batch: it is exactly as it was before the call, or it holds the whole
\* effect of the statement (every row of the batch whose key was not stored
\* is stored, and every row stored before is as it was).
C13_FailedCommitIsAllOrNothing ==
    ret = Err =>
        \/ store = pre
        \/ /\ Keys(store) = Keys(pre) \cup DigestsOf(values)
           /\ \A k \in Keys(pre) : store[k] = pre[k]
           /\ \A k \in Keys(store) \ Keys(pre) :
                 \E i \in DOMAIN values :
                    /\ store[k] = values[i]
                    /\ \A j \in 1..(i - 1) : values[j].event_digest # k

\* C13's case: a commit of several rows on a table that already holds one of
\* their keys returned an error, and the table is not as it was
C13_Witness ==
    /\ ret = Err
    /\ Len(values) >= 2
    /\ DigestsOf(values) \cap Keys(pre) # {}
    /\ store # pre

(***************************************************************************)
(* Specification Spec: the pipeline delivers the checkpoints of a  *)
(* ledger at least once each, in any order: process, then commit of what   *)
(* process returned.                                                       *)
(***************************************************************************)
Tx(v, events, package) ==
    [digest |-> DigestOf(v), sender |-> SenderS,
     events |-> events, move_call_package |-> package]

\* three checkpoints of three transactions; their digests format as "2", "21"
\* and "1"
Ledger ==
    << [checkpoint_summary |-> [sequence_number |-> 1, timestamp_ms |-> 1],
        transactions |-> << Tx(1, Some(EventList(MaxEvents, <<ModDex>>)), Some(PkgD)) >>],
       [checkpoint_summary |-> [sequence_number |-> 2, timestamp_ms |-> 2],
        transactions |-> << Tx(58, Some(EventList(2, <<ModAmm, ModDexCap>>)), Some(PkgA)) >>],
       [checkpoint_summary |-> [sequence_number |-> 3, timestamp_ms |-> 3],
        transactions |-> << Tx(0, Some(EventList(1, <<ModDex>>)), None) >>] >>

Init ==
    /\ modules_arg \in FilterArgs
    /\ modules_filter = new(modules_arg)
    /\ package_allowlist = None
    /\ InitIdle

\* one delivery whose commit succeeds
Deliver(cp) ==
    LET rows == process(modules_filter, cp)
        res == commit(store, rows)
    IN  /\ checkpoint' = Some(cp)
        /\ out' = rows
        /\ pre' = store
        /\ store' = res.table
        /\ ret' = Ok(res.n)
        /\ values' = rows
        /\ again' = SameRecordSet(rows)
        /\ redelivery' = (cp \in delivered)
        /\ delivered' = delivered \cup {cp}
        /\ UNCHANGED << modules_arg, modules_filter, package_allowlist, conns, returned >>

\* one delivery whose commit fails: nothing is stored, and the checkpoint
\* stays to be delivered
DeliverErr(cp) ==
    LET rows == process(modules_filter, cp)
    IN  /\ checkpoint' = Some(cp)
        /\ out' = rows
        /\ pre' = store
        /\ store' = store
        /\ ret' = Err
        /\ values' = rows
        /\ again' = FALSE
        /\ redelivery' = (cp \in delivered)
        /\ UNCHANGED << modules_arg, modules_filter, package_allowlist, delivered,
                        conns, returned >>

\* one delivery whose commit fails after the statement took effect: the rows
\* are stored, the pipeline sees the error and delivers the checkpoint again
DeliverErrApplied(cp) ==
    LET rows == process(modules_filter, cp)
    IN  /\ checkpoint' = Some(cp)
        /\ out' = rows
        /\ pre' = store
        /\ store' = commit(store, rows).table
        /\ ret' = Err
        /\ values' = rows
        /\ again' = FALSE
        /\ redelivery' = (cp \in delivered)
        /\ delivered' = delivered \cup {cp}
        /\ UNCHANGED << modules_arg, modules_filter, package_allowlist, conns, returned >>

Next ==
    \E i \in DOMAIN Ledger :
        \/ Deliver(Ledger[i])
        \/ DeliverErr(Ledger[i])
        \/ DeliverErrApplied(Ledger[i])

Spec == Init /\ [][Next]_vars

RECURSIVE KeptEvents(_)
\* the number of events process keeps in the checkpoints of a set
KeptEvents(cps) ==
    IF cps = {} THEN 0
    ELSE LET cp == CHOOSE c \in cps : TRUE
         IN  Len(process(modules_filter, cp)) + KeptEvents(cps \ {cp})

\* C2: under at-least-once delivery the table holds exactly one row per kept
\* event of the distinct checkpoints delivered, the commit of every
\* re-delivery returns 0, and a re-delivery leaves the row count as it was.
C2_ExactlyOnceRows ==
    /\ Cardinality(Keys(store)) = KeptEvents(delivered)
    /\ (redelivery /\ ret.tag = "ok") =>
          /\ ret = Ok(0)
          /\ Cardinality(Keys(store)) = Cardinality(Keys(pre))

(***************************************************************************)
(* Specification SpecCalls: process and commit called one at a time on the *)
(* checkpoints of the ledger, in any order and any number of times; a      *)
(* commit stores what the last call of process returned.                   *)
(***************************************************************************)
\* a mutant of CallProcess: process adds the module names it meets to the
\* handler's set
CallProcessCaching(cp) ==
    /\ checkpoint' = Some(cp)
    /\ out' = process(modules_filter, cp)
    /\ returned' = returned \cup {<< cp, out', store # EmptyTable >>}
    /\ modules_filter' =
          IF modules_filter = None THEN None
          ELSE Some(Unwrap(modules_filter) \cup
                    { to_ascii_lowercase(m) : m \in ModuleNames })
    /\ UNCHANGED << modules_arg, package_allowlist, store, values, ret, pre,
                    again, delivered, redelivery, conns >>

\* process(&self, checkpoint): reads the handler and the checkpoint, returns
\* the records
CallProcess(cp) ==
    /\ checkpoint' = Some(cp)
    /\ out' = process(modules_filter, cp)
    /\ returned' = returned \cup {<< cp, out', store # EmptyTable >>}
    /\ UNCHANGED << modules_arg, modules_filter, package_allowlist, store,
                    values, ret, pre, again, delivered, redelivery, conns >>

\* commit(values, conn) of the records process returned last
CallCommit ==
    LET res == commit(store, out)
    IN  /\ checkpoint # None
        /\ pre' = store
        /\ store' = res.table
        /\ ret' = Ok(res.n)
        /\ values' = out
        /\ again' = SameRecordSet(out)
        /\ UNCHANGED << modules_arg, modules_filter, package_allowlist,
                        checkpoint, out, delivered, redelivery, conns, returned >>

NextCalls ==
    \/ \E i \in DOMAIN Ledger : CallProcess(Ledger[i])
    \/ CallCommit

SpecCalls == Init /\ [][NextCalls]_vars

C18_ProcessHasNoSideEffects ==
    /\ [][ (returned' # returned \/ checkpoint' # checkpoint \/ out' # out) =>
              (modules_filter' = modules_filter /\ store' = store) ]_vars
    /\ [](checkpoint # None => out = process(new(modules_arg), TheCheckpoint))

\* C18's case: a handler with a module set returned records for a checkpoint
\* at a call made when the table held rows, after a call on another checkpoint
C18_Witness ==
    /\ checkpoint # None
    /\ modules_filter # None
    /\ out # <<>>
    /\ store # EmptyTable
    /\ \E h1, h2 \in returned :
          /\ h1[1] = TheCheckpoint
          /\ h1[3]
          /\ h2[1] # TheCheckpoint
          /\ h2[2] # <<>>

(***************************************************************************)
(* Specification SpecReindex: the pipeline of Spec, and the indexer        *)
(* started again with another module allowlist on the table it filled      *)
(* before.                                                                 *)
(***************************************************************************)
\* main constructs the handler anew, with the module names of this build
Restart(filter_arg) ==
    /\ filter_arg # modules_arg
    /\ modules_arg' = filter_arg
    /\ modules_filter' = new(filter_arg)
    /\ UNCHANGED << package_allowlist, checkpoint, out, store, values, ret, pre,
                    again, delivered, redelivery, conns, returned >>

NextReindex ==
    \/ Next
    \/ \E filter_arg \in FilterArgs : Restart(filter_arg)

SpecReindex == Init /\ [][NextReindex]_vars

\* r1 and r2 are records of one event: same transaction, same payload (every
\* event of a transaction of the ledger has a payload of its own)
SameEvent(r1, r2) ==
    r1.digest = r2.digest /\ r1.contents_bcs = r2.contents_bcs

\* C19: the identifier of an event does not depend on the module allowlist.
\* An event kept under two allowlists gets the same event_digest under both;
\* so, across allowlist changes, the table never holds two rows of one event,
\* and the key of a record of a checkpoint indexed again is never the key of a
\* stored row of another event.
C19_EventDigestIgnoresAllowlist ==
    /\ \A i \in DOMAIN Ledger : \A M1, M2 \in FilterArgs :
          LET o1 == process(new(M1), Ledger[i])
              o2 == process(new(M2), Ledger[i])
          IN  \A a \in DOMAIN o1 : \A b \in DOMAIN o2 :
                  SameEvent(o1[a], o2[b]) =>
                      o1[a].event_digest = o2[b].event_digest
    /\ \A k1, k2 \in Keys(store) :
          SameEvent(store[k1], store[k2]) => k1 = k2
    /\ redelivery =>
          \A i \in DOMAIN values :
              values[i].event_digest \in Keys(store) =>
                  SameEvent(store[values[i].event_digest], values[i])

(***************************************************************************)
(* Specification SpecConcurrent: commits running at the same time, each on *)
(* its own connection. commit takes no lock and orders nothing, so what    *)
(* happens is what the store does with concurrent                          *)
(* INSERT ... ON CONFLICT DO NOTHING statements (PostgreSQL, read          *)
(* committed): a statement inserts its rows one after the other; its rows  *)
(* become visible to the others when it ends; a row whose key is stored is *)
(* skipped; a row whose key was inserted by a statement still in progress  *)
(* waits for that statement to end; statements waiting for each other are  *)
(* a deadlock, which the server breaks by failing one of them.             *)
(***************************************************************************)
Conns == 1..NumConns

IdleConn == [pc |-> "idle", vals |-> <<>>, next |-> 1, pending |-> EmptyTable,
             n |-> 0, ret |-> NoRet]

ConcurrentBatches == SeqsUpTo(CommitRows, MaxBatch)

InitConcurrent ==
    /\ modules_arg = None
    /\ modules_filter = new(modules_arg)
    /\ package_allowlist = None
    /\ checkpoint = None
    /\ out = <<>>
    /\ store = EmptyTable
    /\ values = <<>>
    /\ ret = NoRet
    /\ pre = EmptyTable
    /\ again = FALSE
    /\ delivered = {}
    /\ redelivery = FALSE
    /\ conns = [c \in Conns |-> IdleConn]
    /\ returned = {}

Running(c) == conns[c].pc = "running"

\* the row the statement of c is at
NextRow(c) == conns[c].vals[conns[c].next]

\* the connections whose statement in progress inserted the key and has not ended
Holders(key) == { d \in Conns : Running(d) /\ key \in Keys(conns[d].pending) }

\* c waits for d: the next row of c has a key that d inserted and d has not ended
WaitsFor(c, d) ==
    /\ Running(c)
    /\ conns[c].next <= Len(conns[c].vals)
    /\ d # c
    /\ d \in Holders(NextRow(c).event_digest)

\* d is reached from c along at most fuel waits
RECURSIVE WaitReaches(_, _, _)
WaitReaches(c, d, fuel) ==
    /\ fuel > 0
    /\ \E e \in Conns :
          /\ WaitsFor(c, e)
          /\ (e = d \/ WaitReaches(e, d, fuel - 1))

Deadlocked(c) == WaitReaches(c, c, NumConns)

\* commit(values, conn) is called: execute sends the statement
BeginCommit(c, vals) ==
    /\ conns[c].pc = "idle"
    /\ conns' = [conns EXCEPT ![c] = [IdleConn EXCEPT !.pc = "running", !.vals = vals]]
    /\ UNCHANGED << modules_arg, modules_filter, package_allowlist, checkpoint, out,
                    store, values, ret, pre, again, delivered, redelivery, returned >>

\* the statement of c handles its next row
InsertRow(c) ==
    /\ Running(c)
    /\ conns[c].next <= Len(conns[c].vals)
    /\ LET row == NextRow(c)
           key == row.event_digest
       IN  /\ Holders(key) \subseteq {c}
           /\ IF key \in Keys(store) \/ key \in Keys(conns[c].pending)
              THEN conns' = [conns EXCEPT ![c].next = @ + 1]
              ELSE conns' = [conns EXCEPT ![c].next = @ + 1,
                                          ![c].n = @ + 1,
                                          ![c].pending = @ @@ (key :> row)]
    /\ UNCHANGED << modules_arg, modules_filter, package_allowlist, checkpoint, out,
                    store, values, ret, pre, again, delivered, redelivery, returned >>

\* the statement of c ends: its rows are stored, commit returns Ok(count)
EndCommit(c) ==
    /\ Running(c)
    /\ conns[c].next > Len(conns[c].vals)
    /\ store' = store @@ conns[c].pending
    /\ conns' = [conns EXCEPT ![c].pc = "done", ![c].ret = Ok(conns[c].n),
                              ![c].pending = EmptyTable]
    /\ UNCHANGED << modules_arg, modules_filter, package_allowlist, checkpoint, out,
                    values, ret, pre, again, delivered, redelivery, returned >>

\* the server breaks a deadlock by failing the statement of c: its rows are
\* dropped, execute returns the error and `?` hands it to the caller
DeadlockAbort(c) ==
    /\ Deadlocked(c)
    /\ conns' = [conns EXCEPT ![c].pc = "done", ![c].ret = Err,
                              ![c].pending = EmptyTable]
    /\ UNCHANGED << modules_arg, modules_filter, package_allowlist, checkpoint, out,
                    store, values, ret, pre, again, delivered, redelivery, returned >>

NextConcurrent ==
    \E c \in Conns :
        \/ \E vals \in ConcurrentBatches : BeginCommit(c, vals)
        \/ InsertRow(c)
        \/ EndCommit(c)
        \/ DeadlockAbort(c)

SpecConcurrent == InitConcurrent /\ [][NextConcurrent]_vars

\* every connection has committed and returned
AllReturned == \A c \in Conns : conns[c].pc = "done"

RECURSIVE SumCounts(_)
SumCounts(cs) ==
    IF cs = {} THEN 0
    ELSE LET c == CHOOSE d \in cs : TRUE
         IN  conns[c].ret.n + SumCounts(cs \ {c})

\* C10: for every interleaving of concurrent commits with overlapping
\* event_digest values no commit fails, the table ends with exactly one row
\* per distinct event_digest submitted (so the final key set is the same for
\* every order in which the commits take effect), and the returned counts sum
\* to the number of rows added.
C10_ConcurrentCommitsAreSafe ==
    (conns # <<>> /\ AllReturned) =>
        /\ \A c \in Conns : conns[c].ret.tag = "ok"
        /\ Keys(store) = UNION { DigestsOf(conns[c].vals) : c \in Conns }
        /\ SumCounts(Conns) = Cardinality(Keys(store))

====
